---- MODULE Spec2Model ----
(***************************************************************************)
(* Model of static/script.js of the liveliness-detection client: the       *)
(* session controller (startDetection / stopDetection), the render loop    *)
(* driven by requestAnimationFrame, the prediction loop driven by          *)
(* setInterval and fetch, and the overlay renderer drawPredictions.        *)
(*                                                                         *)
(* JavaScript runs every handler to completion, so one action is one       *)
(* handler activation up to its next await; the continuation after an      *)
(* await is a separate action enabled while that activation is suspended.  *)
(***************************************************************************)
EXTENDS Integers, Sequences, FiniteSets, TLC

VARIABLES
    stream,               \* script.js:14  0 is null, otherwise the id of a MediaStream
    isDetecting,          \* script.js:15
    latestPredictions,    \* script.js:16
    predictionIntervalId, \* script.js:17  0 is null, otherwise a setInterval id
    startDisabled,        \* startButton.disabled
    stopDisabled,         \* stopButton.disabled
    statusText,           \* statusText.textContent
    srcObject,            \* video.srcObject, 0 is null
    listeners,            \* number of 'loadedmetadata' listeners added to video
    metaPending,          \* a 'loadedmetadata' event is due for the current srcObject
    timers,               \* ids of the setInterval timers that are armed
    nextTimerId,          \* the id the next setInterval call returns
    rafQueue,             \* pending requestAnimationFrame(renderLoop) callbacks
    gumPending,           \* startDetection activations suspended at await getUserMedia
    tracks,               \* tracks[s]: readyState of the tracks of stream s
    stoppedEnded,         \* the last stopDetection called stop() on ended tracks
    inFlight,             \* predictionLoop activations suspended at an await
    ctx,                  \* the 2D context's drawing state
    canvas,               \* what the visible canvas shows
    lastOutcome           \* how the prediction cycle that resolved last ended

vars == <<stream, isDetecting, latestPredictions, predictionIntervalId,
          startDisabled, stopDisabled, statusText, srcObject, listeners,
          metaPending, timers, nextTimerId, rafQueue, gumPending, tracks,
          stoppedEnded, inFlight, ctx, canvas, lastOutcome>>

(***************************************************************************)
(* Bounds of the model.                                                    *)
(***************************************************************************)
\* camera streams getUserMedia grants in one behaviour
MaxStreams == 2
\* getUserMedia calls outstanding at once
MaxPending == 1
\* prediction requests outstanding at once
MaxInFlight == 2
\* detections in one list handed to drawPredictions (overlay specification)
MaxDets == 2

(***************************************************************************)
(* Program constants.                                                      *)
(***************************************************************************)
textBgHeight == 24

\* The texts the script writes to the status element.
StatusIdle == "Click \"Start Detection\" to begin."
StatusInitializing == "Initializing Webcam..."
StatusWebcamActive == "Webcam active. Detecting..."
StatusPermissionError == "Error: Could not access webcam. Please check permissions."
StatusDetectionActive == "Detection active."
StatusNoFace == "No face detected. Looking..."

(***************************************************************************)
(* The overlay renderer, drawPredictions (script.js:124-148).              *)
(*                                                                         *)
(* A detection is [box |-> <<x, y, w, h>>, label |-> string,               *)
(* confidence |-> c] with the confidence in thousandths (970 is 0.97).     *)
(***************************************************************************)

\* A CSS hex colour as the canvas parses it: case-insensitive, to <<r, g, b>>.
ParseColor(s) ==
    CASE s \in {"#00FF00", "#00ff00"} -> <<0, 255, 0>>
      [] s \in {"#FF0000", "#ff0000"} -> <<255, 0, 0>>
      [] s \in {"#FFFFFF", "#ffffff"} -> <<255, 255, 255>>
      [] OTHER -> <<0, 0, 0>>

\* The string the strokeStyle / fillStyle getter returns for a colour.
SerializeColor(rgb) ==
    CASE rgb = <<0, 255, 0>> -> "#00ff00"
      [] rgb = <<255, 0, 0>> -> "#ff0000"
      [] rgb = <<255, 255, 255>> -> "#ffffff"
      [] OTHER -> "#000000"

\* Assigning s to ctx.strokeStyle or ctx.fillStyle: parsed, kept serialized.
SetStyle(s) == SerializeColor(ParseColor(s))

\* A fresh 2D context (script.js:7).
FreshCtx ==
    [strokeStyle |-> "#000000", fillStyle |-> "#000000",
     font |-> "10px sans-serif", lineWidth |-> 1]

\* ctx.clearRect(0, 0, canvas.width, canvas.height)
ClearedCanvas == [video |-> FALSE, ops |-> <<>>]

\* ctx.drawImage(video, 0, 0, canvas.width, canvas.height): covers the canvas.
VideoFrameCanvas == [video |-> TRUE, ops |-> <<>>]

BoxColorAlwaysFake(label) == "#FF0000"

\* script.js:131
BoxColor(label) == IF label = "Original" THEN "#00FF00" ELSE "#FF0000"

RoundPercentFloor(confidence) == confidence \div 10

\* Math.round(confidence * 100): nearest integer, a half rounds up (script.js:136).
RoundPercent(confidence) == (confidence + 5) \div 10

\* script.js:136
LabelText(pred) ==
    pred.label \o ": " \o ToString(RoundPercent(pred.confidence)) \o "%"

\* ctx.measureText(text).width: advance width under the context's current font.
CharWidth(font) == IF font = "18px Arial" THEN 10 ELSE 5

MeasureText(c, text) == CharWidth(c.font) * Len(text)

\* script.js:139, second argument of fillRect
LabelBgTop(y) == IF y > textBgHeight THEN y - textBgHeight ELSE y

\* script.js:143, third argument of fillText
LabelBaseline(y) == IF y > textBgHeight THEN y - 5 ELSE 18

\* One iteration of the forEach body (script.js:126-143): the context state
\* after it and the three drawing calls it makes.
DrawOne(c, pred) ==
    LET x == pred.box[1]
        y == pred.box[2]
        w == pred.box[3]
        h == pred.box[4]
        c1 == [c EXCEPT !.strokeStyle = SetStyle(BoxColor(pred.label)),
                        !.lineWidth = 3]
        text == LabelText(pred)
        c2 == [c1 EXCEPT !.fillStyle = SetStyle(c1.strokeStyle)]
        bgWidth == MeasureText(c2, text) + 10
        c3 == [c2 EXCEPT !.fillStyle = SetStyle("#FFFFFF"),
                         !.font = "18px Arial"]
    IN [ctx |-> c3,
        ops |-> << [op |-> "strokeRect", x |-> x, y |-> y, w |-> w, h |-> h,
                    style |-> c1.strokeStyle, lineWidth |-> c1.lineWidth],
                   [op |-> "fillRect", x |-> x, y |-> LabelBgTop(y),
                    w |-> bgWidth, h |-> textBgHeight, style |-> c2.fillStyle],
                   [op |-> "fillText", text |-> text, x |-> x + 5,
                    y |-> LabelBaseline(y), style |-> c3.fillStyle,
                    font |-> c3.font] >>]

\* predictions.forEach(...) (script.js:125-144) from context state c.
RECURSIVE DrawEach(_, _)
DrawEach(c, predictions) ==
    IF predictions = <<>>
    THEN [ctx |-> c, ops |-> <<>>]
    ELSE LET first == DrawOne(c, Head(predictions))
             rest == DrawEach(first.ctx, Tail(predictions))
         IN [ctx |-> rest.ctx, ops |-> first.ops \o rest.ops]

StatusForSwapped(predictions) ==
    IF Len(predictions) > 0 THEN StatusNoFace ELSE StatusDetectionActive

\* script.js:147
StatusFor(predictions) ==
    IF Len(predictions) > 0 THEN StatusDetectionActive ELSE StatusNoFace

\* statusText after drawPredictions(predictions) (script.js:146-148).
StatusAfterDraw(predictions) ==
    IF isDetecting THEN StatusFor(predictions) ELSE statusText

(***************************************************************************)
(* Inputs: what the prediction service may answer on success.              *)
(***************************************************************************)
DetOriginal == [box |-> <<10, 20, 30, 40>>, label |-> "Original", confidence |-> 970]
DetFake == [box |-> <<50, 30, 20, 20>>, label |-> "Fake", confidence |-> 615]

Responses == {<<>>, <<DetOriginal>>, <<DetFake, DetOriginal>>}

(***************************************************************************)
(* Initial state: the module-level declarations (script.js:2-21). The page *)
(* is idle: no stream, no timer, start offered and stop not.               *)
(***************************************************************************)
Init ==
    /\ stream = 0
    /\ isDetecting = FALSE
    /\ latestPredictions = <<>>
    /\ predictionIntervalId = 0
    /\ startDisabled = FALSE
    /\ stopDisabled = TRUE
    /\ statusText = StatusIdle
    /\ srcObject = 0
    /\ listeners = 0
    /\ metaPending = FALSE
    /\ timers = {}
    /\ nextTimerId = 1
    /\ rafQueue = [fresh |-> 0, stale |-> 0]
    /\ gumPending = 0
    /\ tracks = <<>>
    /\ stoppedEnded = FALSE
    /\ inFlight = [fetch |-> 0, json |-> 0]
    /\ ctx = FreshCtx
    /\ canvas = ClearedCanvas
    /\ lastOutcome = "none"

(***************************************************************************)
(* Session controller.                                                     *)
(***************************************************************************)

ClickStartClearing ==
    /\ ~startDisabled
    /\ gumPending < MaxPending
    /\ isDetecting' = TRUE
    /\ startDisabled' = TRUE
    /\ stopDisabled' = FALSE
    /\ statusText' = StatusInitializing
    /\ gumPending' = gumPending + 1
    /\ latestPredictions' = <<>>
    /\ UNCHANGED <<stream, predictionIntervalId, srcObject,
                   listeners, metaPending, timers, nextTimerId, rafQueue,
                   tracks, stoppedEnded, inFlight, ctx, canvas, lastOutcome>>

\* startDetection up to its await (script.js:26-33), run by a click on the
\* start button; a disabled button delivers no click.
ClickStart ==
    /\ ~startDisabled
    /\ gumPending < MaxPending
    /\ isDetecting' = TRUE
    /\ startDisabled' = TRUE
    /\ stopDisabled' = FALSE
    /\ statusText' = StatusInitializing
    /\ gumPending' = gumPending + 1
    /\ UNCHANGED <<stream, latestPredictions, predictionIntervalId, srcObject,
                   listeners, metaPending, timers, nextTimerId, rafQueue,
                   tracks, stoppedEnded, inFlight, ctx, canvas, lastOutcome>>

\* startDetection after getUserMedia resolves (script.js:33-41): the stream
\* is a new MediaStream with live tracks; assigning it to video.srcObject
\* loads it, which makes a 'loadedmetadata' event due; the listener is
\* added and never removed.
GumResolve ==
    /\ gumPending > 0
    /\ Len(tracks) < MaxStreams
    /\ gumPending' = gumPending - 1
    /\ tracks' = Append(tracks, "live")
    /\ stream' = Len(tracks) + 1
    /\ srcObject' = Len(tracks) + 1
    /\ listeners' = listeners + 1
    /\ metaPending' = TRUE
    /\ UNCHANGED <<isDetecting, latestPredictions, predictionIntervalId,
                   startDisabled, stopDisabled, statusText, timers, nextTimerId,
                   rafQueue, stoppedEnded, inFlight, ctx, canvas, lastOutcome>>

\* clearInterval(predictionIntervalId) (script.js:59)
ClearInterval(armed, id) == armed \ {id}

\* stream.getTracks().forEach(track => track.stop()) under if (stream)
\* (script.js:62-64)
StopTracks(ts, s) == IF s # 0 THEN [ts EXCEPT ![s] = "ended"] ELSE ts

StopDetectionKeepsStart ==
    /\ isDetecting' = FALSE
    /\ startDisabled' = startDisabled
    /\ stopDisabled' = TRUE
    /\ statusText' = StatusIdle
    /\ timers' = ClearInterval(timers, predictionIntervalId)
    /\ tracks' = StopTracks(tracks, stream)
    /\ stoppedEnded' = (stream # 0 /\ tracks[stream] = "ended")
    /\ srcObject' = 0
    /\ metaPending' = FALSE
    /\ latestPredictions' = <<>>
    /\ canvas' = ClearedCanvas
    /\ rafQueue' = [fresh |-> 0, stale |-> rafQueue.fresh + rafQueue.stale]

\* stopDetection (script.js:52-70). Assigning null to video.srcObject
\* reloads the element, which drops a 'loadedmetadata' event still due.
\* Callbacks pending in rafQueue stay; they are marked as having been
\* scheduled before this stop.
StopDetection ==
    /\ isDetecting' = FALSE
    /\ startDisabled' = FALSE
    /\ stopDisabled' = TRUE
    /\ statusText' = StatusIdle
    /\ timers' = ClearInterval(timers, predictionIntervalId)
    /\ tracks' = StopTracks(tracks, stream)
    /\ stoppedEnded' = (stream # 0 /\ tracks[stream] = "ended")
    /\ srcObject' = 0
    /\ metaPending' = FALSE
    /\ latestPredictions' = <<>>
    /\ canvas' = ClearedCanvas
    /\ rafQueue' = [fresh |-> 0, stale |-> rafQueue.fresh + rafQueue.stale]

\* A click on the stop button (script.js:21).
ClickStop ==
    /\ ~stopDisabled
    /\ StopDetection
    /\ UNCHANGED <<stream, predictionIntervalId, listeners, nextTimerId,
                   gumPending, inFlight, ctx, lastOutcome>>

\* startDetection after getUserMedia rejects (script.js:42-46): the catch
\* block writes the error message to the status element and then calls
\* stopDetection, whose line 56 writes the status element again.
GumReject ==
    /\ gumPending > 0
    /\ gumPending' = gumPending - 1
    /\ StopDetection
    /\ UNCHANGED <<stream, predictionIntervalId, listeners, nextTimerId,
                   inFlight, ctx, lastOutcome>>

\* The 'loadedmetadata' event of the video element: every listener added so
\* far runs (script.js:35-41), each one scheduling renderLoop and arming a
\* new interval timer whose id it stores in predictionIntervalId.
LoadedMetadata ==
    /\ metaPending
    /\ metaPending' = FALSE
    /\ statusText' = StatusWebcamActive
    /\ rafQueue' = [rafQueue EXCEPT !.fresh = @ + listeners]
    /\ timers' = timers \cup (nextTimerId .. nextTimerId + listeners - 1)
    /\ predictionIntervalId' = nextTimerId + listeners - 1
    /\ nextTimerId' = nextTimerId + listeners
    /\ UNCHANGED <<stream, isDetecting, latestPredictions, startDisabled,
                   stopDisabled, srcObject, listeners, gumPending, tracks,
                   stoppedEnded, inFlight, ctx, canvas, lastOutcome>>

(***************************************************************************)
(* Render loop.                                                            *)
(***************************************************************************)

\* One renderLoop activation (script.js:75-85), for a callback that was
\* (stale) or was not scheduled before the last stopDetection.
RenderLoop(stale) ==
    /\ rafQueue[IF stale THEN "stale" ELSE "fresh"] > 0
    /\ IF ~isDetecting
       THEN /\ rafQueue' = IF stale
                           THEN [rafQueue EXCEPT !.stale = @ - 1]
                           ELSE [rafQueue EXCEPT !.fresh = @ - 1]
            /\ UNCHANGED <<ctx, canvas, statusText>>
       ELSE LET drawn == DrawEach(ctx, latestPredictions)
            IN /\ canvas' = [VideoFrameCanvas EXCEPT !.ops = drawn.ops]
               /\ ctx' = drawn.ctx
               /\ statusText' = StatusAfterDraw(latestPredictions)
               /\ rafQueue' = IF stale
                              THEN [rafQueue EXCEPT !.stale = @ - 1, !.fresh = @ + 1]
                              ELSE rafQueue
    /\ UNCHANGED <<stream, isDetecting, latestPredictions, predictionIntervalId,
                   startDisabled, stopDisabled, srcObject, listeners, metaPending,
                   timers, nextTimerId, gumPending, tracks, stoppedEnded,
                   inFlight, lastOutcome>>

(***************************************************************************)
(* Prediction loop.                                                        *)
(***************************************************************************)

OnPredictionErrorKeep == latestPredictions

\* script.js:117
OnPredictionError == <<>>

PredictionLoopUnguarded ==
    /\ timers # {}
    /\ inFlight.fetch + inFlight.json < MaxInFlight
    /\ inFlight' = [inFlight EXCEPT !.fetch = @ + 1]
    /\ UNCHANGED <<stream, isDetecting, latestPredictions, predictionIntervalId,
                   startDisabled, stopDisabled, statusText, srcObject, listeners,
                   metaPending, timers, nextTimerId, rafQueue, gumPending,
                   tracks, stoppedEnded, ctx, canvas, lastOutcome>>

\* predictionLoop up to await fetch (script.js:90-106), run by an armed
\* interval timer.
PredictionLoop ==
    /\ timers # {}
    /\ IF ~isDetecting
       THEN UNCHANGED inFlight
       ELSE /\ inFlight.fetch + inFlight.json < MaxInFlight
            /\ inFlight' = [inFlight EXCEPT !.fetch = @ + 1]
    /\ UNCHANGED <<stream, isDetecting, latestPredictions, predictionIntervalId,
                   startDisabled, stopDisabled, statusText, srcObject, listeners,
                   metaPending, timers, nextTimerId, rafQueue, gumPending,
                   tracks, stoppedEnded, ctx, canvas, lastOutcome>>

\* What every continuation of predictionLoop leaves alone.
PredictionFrame ==
    UNCHANGED <<stream, isDetecting, predictionIntervalId, startDisabled,
                stopDisabled, statusText, srcObject, listeners, metaPending,
                timers, nextTimerId, rafQueue, gumPending, tracks,
                stoppedEnded, ctx, canvas>>

\* fetch rejects (transport failure): the catch block runs (script.js:115-118).
FetchReject ==
    /\ inFlight.fetch > 0
    /\ inFlight' = [inFlight EXCEPT !.fetch = @ - 1]
    /\ latestPredictions' = OnPredictionError
    /\ lastOutcome' = "fetchReject"
    /\ PredictionFrame

\* fetch resolves with a status outside 200-299: line 109 throws, the catch
\* block runs (script.js:108-110, 115-118).
FetchNotOk ==
    /\ inFlight.fetch > 0
    /\ inFlight' = [inFlight EXCEPT !.fetch = @ - 1]
    /\ latestPredictions' = OnPredictionError
    /\ lastOutcome' = "httpError"
    /\ PredictionFrame

\* fetch resolves with a success status: the activation suspends again at
\* await response.json() (script.js:108-113).
FetchOk ==
    /\ inFlight.fetch > 0
    /\ inFlight' = [inFlight EXCEPT !.fetch = @ - 1, !.json = @ + 1]
    /\ UNCHANGED <<latestPredictions, lastOutcome>>
    /\ PredictionFrame

AssignPredictionsFirstWins(body) ==
    IF latestPredictions # <<>> THEN latestPredictions ELSE body

AssignPredictionsAppend(body) == latestPredictions \o body

\* The value line 113 assigns once response.json() has produced body.
AssignPredictions(body) == body

\* response.json() resolves with the parsed body (script.js:113).
JsonResolve(body) ==
    /\ inFlight.json > 0
    /\ inFlight' = [inFlight EXCEPT !.json = @ - 1]
    /\ latestPredictions' = AssignPredictions(body)
    /\ lastOutcome' = "ok"
    /\ PredictionFrame

\* response.json() rejects, the body is not JSON: the catch block runs
\* (script.js:113-118).
JsonReject ==
    /\ inFlight.json > 0
    /\ inFlight' = [inFlight EXCEPT !.json = @ - 1]
    /\ latestPredictions' = OnPredictionError
    /\ lastOutcome' = "jsonReject"
    /\ PredictionFrame

Next ==
    \/ ClickStart
    \/ GumResolve
    \/ GumReject
    \/ ClickStop
    \/ LoadedMetadata
    \/ \E stale \in BOOLEAN : RenderLoop(stale)
    \/ PredictionLoop
    \/ FetchReject
    \/ FetchNotOk
    \/ FetchOk
    \/ \E body \in Responses : JsonResolve(body)
    \/ JsonReject

Spec == Init /\ [][Next]_vars

(***************************************************************************)
(* The overlay renderer on its own: drawPredictions applied to every       *)
(* detection list up to MaxDets long, on a cleared surface, with the       *)
(* context as the page creates it or as an earlier call left it.           *)
(***************************************************************************)
Boxes == {<<10, 20, 30, 40>>, <<0, 24, 5, 5>>, <<7, 60, 8, 9>>}
Labels == {"Original", "Fake", "original"}
Confidences == {4, 5, 970, 1000}

Detections == [box : Boxes, label : Labels, confidence : Confidences]

DetectionLists == UNION {[1..n -> Detections] : n \in 0..MaxDets}

InitDraw ==
    /\ stream = 0
    /\ isDetecting \in BOOLEAN
    /\ latestPredictions \in DetectionLists
    /\ predictionIntervalId = 0
    /\ startDisabled = isDetecting
    /\ stopDisabled = ~isDetecting
    /\ statusText = IF isDetecting THEN StatusWebcamActive ELSE StatusIdle
    /\ srcObject = 0
    /\ listeners = 0
    /\ metaPending = FALSE
    /\ timers = {}
    /\ nextTimerId = 1
    /\ rafQueue = [fresh |-> 0, stale |-> 0]
    /\ gumPending = 0
    /\ tracks = <<>>
    /\ stoppedEnded = FALSE
    /\ inFlight = [fetch |-> 0, json |-> 0]
    /\ ctx = FreshCtx
    /\ canvas = ClearedCanvas
    /\ lastOutcome = "none"

\* drawPredictions(latestPredictions) (script.js:124-148) on a cleared surface.
DrawPredictions ==
    /\ canvas = ClearedCanvas
    /\ LET drawn == DrawEach(ctx, latestPredictions)
       IN /\ canvas' = [canvas EXCEPT !.ops = drawn.ops]
          /\ ctx' = drawn.ctx
    /\ statusText' = StatusAfterDraw(latestPredictions)
    /\ UNCHANGED <<stream, isDetecting, latestPredictions, predictionIntervalId,
                   startDisabled, stopDisabled, srcObject, listeners, metaPending,
                   timers, nextTimerId, rafQueue, gumPending, tracks,
                   stoppedEnded, inFlight, lastOutcome>>

\* ctx.clearRect(0, 0, canvas.width, canvas.height) (script.js:69)
ClearRect ==
    /\ canvas # ClearedCanvas
    /\ canvas' = ClearedCanvas
    /\ UNCHANGED <<stream, isDetecting, latestPredictions, predictionIntervalId,
                   startDisabled, stopDisabled, statusText, srcObject, listeners,
                   metaPending, timers, nextTimerId, rafQueue, gumPending,
                   tracks, stoppedEnded, inFlight, ctx, lastOutcome>>

NextDraw ==
    \/ DrawPredictions
    \/ ClearRect

SpecDraw == InitDraw /\ [][NextDraw]_vars

(***************************************************************************)
(* The claims.                                                             *)
(***************************************************************************)

\* A stopDetection activation: the stop click or the catch block of
\* startDetection.
StopDetectionStep == ClickStop \/ GumReject

\* A renderLoop activation.
RenderStep == \E stale \in BOOLEAN : RenderLoop(stale)

\* A prediction cycle ending in failure.
PredictionFailureStep == FetchReject \/ FetchNotOk \/ JsonReject

\* Number of renderLoop callbacks pending in queue q.
Pending(q) == q.fresh + q.stale

\* C1: while the session is stopped the detection slot is the empty list
\* that stopDetection left; a response that resolves after the stop does not
\* repopulate it.
C1_NoResurrection == ~isDetecting => latestPredictions = <<>>

\* C2: once the session is inactive and no getUserMedia call is pending,
\* every stream getUserMedia returned has had its tracks stopped.
C2_StreamsReleased ==
    (~isDetecting /\ gumPending = 0)
        => \A s \in 1..Len(tracks) : tracks[s] = "ended"

\* C3: when stopDetection has just run and no getUserMedia completion or
\* loadedmetadata event is pending, no interval timer is armed.
C3_StopCancelsTimers ==
    [][(StopDetectionStep /\ gumPending' = 0 /\ ~metaPending') => timers' = {}]_vars

\* C4: when getUserMedia rejects, startDetection finishes with no partial
\* session state: inactive (so no render callback reschedules), no timer
\* armed, the detection slot empty, start enabled and stop disabled.
C4_RejectLeavesNoPartialState ==
    [][GumReject =>
          /\ ~isDetecting'
          /\ timers' = {}
          /\ latestPredictions' = <<>>
          /\ ~startDisabled'
          /\ stopDisabled']_vars

\* C5: when getUserMedia rejects, the status element shows the
\* permission-error message once startDetection has handled the failure, and
\* keeps showing it until the next click.
C5_ErrorSurfaced ==
    [][/\ GumReject => statusText' = StatusPermissionError
       /\ (statusText = StatusPermissionError /\ ~(ClickStart \/ ClickStop))
              => statusText' = StatusPermissionError]_vars

\* C6: stopDetection run while the session is already stopped leaves
\* isDetecting, latestPredictions, the timers and the buttons as they were
\* and calls stop() on no track that has already ended.
C6_StopIdempotent ==
    [][(StopDetectionStep /\ ~isDetecting) =>
          /\ isDetecting' = isDetecting
          /\ latestPredictions' = latestPredictions
          /\ timers' = timers
          /\ predictionIntervalId' = predictionIntervalId
          /\ startDisabled' = startDisabled
          /\ stopDisabled' = stopDisabled
          /\ ~stoppedEnded']_vars

\* C7: during an active session a response with a non-success status makes
\* latestPredictions the empty list whatever it held, and the status element
\* then reports no detection: the renderLoop activation that finds the
\* session active and the slot empty writes the no-detection message.
C7_HttpErrorClearsSlot ==
    [][/\ (FetchNotOk /\ isDetecting) => latestPredictions' = <<>>
       /\ (RenderStep /\ isDetecting /\ latestPredictions = <<>>)
              => statusText' = StatusNoFace]_vars

\* C7 witness: the last cycle ended with a non-success status in an active
\* session, the slot is empty, a frame has been rendered and the status
\* reports no detection.
C7_Witness ==
    /\ lastOutcome = "httpError"
    /\ isDetecting
    /\ latestPredictions = <<>>
    /\ canvas.video
    /\ statusText = StatusNoFace

\* C8: renderLoop reschedules itself while isDetecting is true, and a
\* callback that was pending when stopDetection ran draws nothing and does
\* not call requestAnimationFrame, also when a new start follows the stop
\* before the next frame.
C8_RenderStopsWithinOneFrame ==
    [][/\ (RenderLoop(FALSE) /\ isDetecting) => Pending(rafQueue') = Pending(rafQueue)
       /\ RenderLoop(TRUE) =>
              /\ canvas' = canvas
              /\ Pending(rafQueue') = Pending(rafQueue) - 1]_vars

\* C9: a prediction cycle that fails (transport error, non-success status,
\* body that is not JSON) empties latestPredictions and leaves the session
\* flag and the timers as they were, and a successful cycle sets
\* latestPredictions to its response.
C9_FailureKeepsLoop ==
    [][/\ PredictionFailureStep =>
              /\ latestPredictions' = <<>>
              /\ isDetecting' = isDetecting
              /\ timers' = timers
              /\ predictionIntervalId' = predictionIntervalId
       /\ \A body \in Responses :
              JsonResolve(body) => latestPredictions' = body]_vars

\* C9 witness: the last cycle failed on a body that is not JSON, the session
\* is active, its timer is armed and has already issued the next request.
C9_Witness ==
    /\ lastOutcome = "jsonReject"
    /\ latestPredictions = <<>>
    /\ isDetecting
    /\ predictionIntervalId \in timers
    /\ inFlight.fetch > 0

IsStrokeRect(o) == o.op = "strokeRect"

IsFillText(o) == o.op = "fillText"

\* The whole percent nearest to a confidence given in thousandths.
NearestPercent(c) == CHOOSE p \in 0..100 : 10 * p - 5 <= c /\ c < 10 * p + 5

\* ops holds, for each detection of preds in order, one rectangle at its box
\* in the colour of its label and the label text with the whole percent.
OverlayMatches(ops, preds) ==
    LET rects == SelectSeq(ops, IsStrokeRect)
        texts == SelectSeq(ops, IsFillText)
    IN /\ Len(rects) = Len(preds)
       /\ Len(texts) = Len(preds)
       /\ \A i \in 1..Len(preds) :
             /\ <<rects[i].x, rects[i].y, rects[i].w, rects[i].h>> = preds[i].box
             /\ ParseColor(rects[i].style) =
                    IF preds[i].label = "Original"
                    THEN <<0, 255, 0>> ELSE <<255, 0, 0>>
             /\ texts[i].text =
                    preds[i].label \o ": "
                        \o ToString(NearestPercent(preds[i].confidence)) \o "%"

\* C10: drawPredictions strokes exactly one rectangle per detection, at the
\* detection's box, green for the label 'Original' and red for any other,
\* and draws the label, ': ', the confidence as a whole percent and '%';
\* box [10,20,30,40], 'Original', 0.97 gives text 'Original: 97%'.
C10_OneRectanglePerDetection ==
    [][DrawPredictions =>
          /\ OverlayMatches(canvas'.ops, latestPredictions)
          /\ latestPredictions = <<DetOriginal>> =>
                 /\ canvas'.ops[1].style = "#00ff00"
                 /\ canvas'.ops[3].text = "Original: 97%"]_vars

\* C10 witness: the example list has been drawn.
C10_Witness ==
    /\ latestPredictions = <<DetOriginal>>
    /\ Len(canvas.ops) = 3
    /\ canvas.ops[1].op = "strokeRect"
    /\ <<canvas.ops[1].x, canvas.ops[1].y, canvas.ops[1].w, canvas.ops[1].h>>
           = <<10, 20, 30, 40>>
    /\ canvas.ops[3].text = "Original: 97%"

\* C11: drawPredictions called twice on the same list, with the surface
\* cleared in between, issues the same drawing calls both times, also when
\* the first call is the first draw ever made on the context. clearRect
\* changes neither the context nor the list, so the second call is the call
\* made from the context the first one leaves.
C11_RenderIdempotent ==
    [][DrawPredictions =>
          DrawEach(ctx', latestPredictions).ops = canvas'.ops]_vars

\* C12: in an active session every response that resolves writes its own
\* outcome to latestPredictions (the parsed list, or the empty list on
\* failure) whatever else is or was in flight, and a response that only
\* reaches response.json() writes nothing: after overlapping requests have
\* all resolved, the slot holds the outcome of the one that resolved last.
C12_LastResolvedWins ==
    [][isDetecting =>
          /\ PredictionFailureStep => latestPredictions' = <<>>
          /\ \A body \in Responses :
                 JsonResolve(body) => latestPredictions' = body
          /\ FetchOk => latestPredictions' = latestPredictions]_vars

\* C12 witness: in an active session one of two overlapping requests has
\* resolved with a list, which the slot holds, while the other is still
\* waiting for its body.
C12_Witness ==
    /\ isDetecting
    /\ lastOutcome = "ok"
    /\ latestPredictions = <<DetFake, DetOriginal>>
    /\ inFlight.json = 1

\* A predictionLoop continuation that ends a prediction cycle.
PredictionResolveStep ==
    PredictionFailureStep \/ \E body \in Responses : JsonResolve(body)

\* C13 as claimed: every change of latestPredictions is made by a
\* predictionLoop activation.
C13_SingleWriter ==
    [][latestPredictions' # latestPredictions => PredictionResolveStep]_vars

\* C13 as amended: every change of latestPredictions is made by a
\* predictionLoop activation or by stopDetection, which empties it;
\* startDetection, the loadedmetadata listener, renderLoop and
\* drawPredictions leave it unchanged.
C13_WritersAreLoopAndStop ==
    [][/\ latestPredictions' # latestPredictions =>
              \/ PredictionResolveStep
              \/ StopDetectionStep /\ latestPredictions' = <<>>
       /\ (ClickStart \/ GumResolve \/ LoadedMetadata \/ RenderStep)
              => latestPredictions' = latestPredictions]_vars

\* C13 witness: a session that drew detections has been stopped after a
\* successful cycle, and the slot is empty.
C13_Witness ==
    /\ ~isDetecting
    /\ lastOutcome = "ok"
    /\ ctx.font = "18px Arial"
    /\ canvas = ClearedCanvas
    /\ latestPredictions = <<>>

\* C14: isDetecting is true only once camera access has succeeded and the
\* stream is stored: whenever isDetecting holds, no getUserMedia call is
\* pending and a stream with live tracks is held.
C14_ActiveOnlyWithStream ==
    isDetecting => (gumPending = 0 /\ stream # 0 /\ tracks[stream] = "live")

\* Prediction requests outstanding, at either await.
Outstanding(f) == f.fetch + f.json

\* C15: a timer activation that finds isDetecting false changes no state,
\* latestPredictions included, and no step taken while the session is
\* inactive issues a prediction request.
C15_InactiveTickIsNoOp ==
    [][/\ (PredictionLoop /\ ~isDetecting) => UNCHANGED vars
       /\ ~isDetecting => Outstanding(inFlight') <= Outstanding(inFlight)]_vars

\* C15 witness: a timer is armed while the session is inactive, so its
\* activations run, and no request is outstanding.
C15_Witness ==
    /\ ~isDetecting
    /\ timers # {}
    /\ gumPending = 0
    /\ ~metaPending
    /\ Outstanding(inFlight) = 0

\* C16: a response that resolves successfully in an active session makes
\* latestPredictions exactly its detection list in that one step; the slot
\* always holds a whole response (or the empty list), never old and new
\* detections together, and renderLoop draws the list the slot holds.
C16_WholesaleReplace ==
    [][/\ \A body \in Responses :
              (JsonResolve(body) /\ isDetecting) => latestPredictions' = body
       /\ latestPredictions' \in Responses
       /\ (RenderStep /\ isDetecting) =>
              OverlayMatches(canvas'.ops, latestPredictions)]_vars

\* C16 witness: the canvas still shows the two detections of the previous
\* response while the slot already holds the one detection of the new one.
C16_Witness ==
    /\ isDetecting
    /\ lastOutcome = "ok"
    /\ Len(SelectSeq(canvas.ops, IsStrokeRect)) = 2
    /\ latestPredictions = <<DetOriginal>>

\* C17: at any time at most one prediction interval timer is armed and at
\* most one renderLoop callback chain is live.
C17_OneTimerOneChain ==
    /\ Cardinality(timers) <= 1
    /\ Pending(rafQueue) <= 1

\* C18: after every step, the first click included, the buttons mirror the
\* session flag: startButton.disabled equals isDetecting and
\* stopButton.disabled equals not isDetecting, so exactly one button is
\* enabled and start cannot be clicked while a session is active or
\* initializing.
C18_ButtonsMirrorFlag ==
    [][/\ startDisabled' = isDetecting'
       /\ stopDisabled' = ~isDetecting'
       /\ isDetecting => ~ClickStart]_vars

\* C18 witness: a session is initializing (getUserMedia pending): start is
\* disabled and stop enabled.
C18_Witness ==
    /\ isDetecting
    /\ gumPending > 0
    /\ statusText = StatusInitializing
    /\ startDisabled
    /\ ~stopDisabled

\* C19: while isDetecting is false the status element shows none of the
\* active-session messages.
C19_NoActiveStatusWhileInactive ==
    ~isDetecting =>
        statusText \notin {StatusWebcamActive, StatusDetectionActive, StatusNoFace}

IsFillRect(o) == o.op = "fillRect"

\* C20: for every detection drawn, the label background is 24 pixels high,
\* starting at y - 24 when y > 24 and at y otherwise, and the baseline of the
\* label text lies within it.
C20_TextInsideBackground ==
    [][DrawPredictions =>
          LET bgs == SelectSeq(canvas'.ops, IsFillRect)
              texts == SelectSeq(canvas'.ops, IsFillText)
          IN \A i \in 1..Len(latestPredictions) :
                LET y == latestPredictions[i].box[2]
                IN /\ bgs[i].h = 24
                   /\ bgs[i].y = IF y > 24 THEN y - 24 ELSE y
                   /\ bgs[i].y <= texts[i].y
                   /\ texts[i].y <= bgs[i].y + 24]_vars

====
